---- MODULE Spec2Model ----
(***************************************************************************)
(* Model of src/handler.js: the four Lambda entry points executeWorkflow,  *)
(* processFile, moveFile and sendEmail.  Each entry point runs an          *)
(* async.waterfall chain of steps against the AWS SDK (v2, 'aws-sdk').     *)
(*                                                                         *)
(* One behaviour is one invocation of one entry point.  An action is one   *)
(* run-to-completion turn of the JavaScript event loop: the entry point    *)
(* itself, or the delivery of one SDK callback / stream event together     *)
(* with everything the handler does synchronously in that turn.            *)
(*                                                                         *)
(* Strings the code computes with (object keys, bucket names) are          *)
(* sequences of one-character strings; names that are only compared        *)
(* (workflow names, ARNs, error values) are atomic strings.                *)
(***************************************************************************)
EXTENDS Naturals, Sequences, FiniteSets, TLC

VARIABLES
  env,          \* process.env: STEP_FUNCTION_NAME, TARGET_BUCKET, DEST_EMAIL
  handler,      \* the entry point that was invoked, "none" before
  event,        \* the event it was invoked with
  invoked,      \* chain steps invoked so far, in order (step numbers)
  fired,        \* completion callbacks of chain steps fired so far: [step, err]
  pending,      \* SDK calls whose callback is outstanding
  calls,        \* SDK requests sent so far, in order: [op, params]
  signals,      \* terminal signals on context so far: [kind, payload]
  uncaught,     \* exception that escaped every handler, "none" if none
  stream,       \* processFile's CSV stream: "none", "open", "ended"
  rows,         \* rows of the stream not yet decoded
  decoded,      \* rows decoded so far ('data' events delivered)
  putRequests,  \* AWS.Request objects built by dynamodb.putItem: [params, sent]
  store,        \* objects the object store holds: <<bucket, key>>
  shadow        \* executeWorkflow run on a second event (see SpecPair)

vars == <<env, handler, event, invoked, fired, pending, calls, signals,
          uncaught, stream, rows, decoded, putRequests, store, shadow>>

-----------------------------------------------------------------------------
(* Bounds of the model *)

\* longest Records list of an event
MaxRecords == 2
\* longest workflow listing returned by listStateMachines
MaxListing == 2
\* longest CSV stream, in rows
MaxRows == 2

-----------------------------------------------------------------------------
(* Values *)

SeqsUpTo(S, n) == UNION {[1..k -> S] : k \in 0..n}

\* JavaScript null, as the error argument of a callback
null == "null"
\* error values the SDK hands to a callback
Errors == {"E1", "E2"}

Names == {"X", "Y"}
Arns == {"A1", "A2"}
Listings == SeqsUpTo([name : Names, stateMachineArn : Arns], MaxListing)

Buckets == {<<"b">>, <<"s", "r", "c">>}
Keys == {<<"k", ".", "c", "s", "v">>, <<"a", " ", "\"", "/">>}
S3Records == [bucket : Buckets, key : Keys]

\* a row as fast-csv decodes it: an array of fields, possibly short
CsvRows == {<<"s1", "100", "3.5">>, <<"s2", "200", "4.1">>, <<"s3">>}

\* values handed to context.succeed / context.fail
Str(v) == [type |-> "string", val |-> v]
Obj(v) == [type |-> "object", val |-> v]
undefined == [type |-> "undefined", val |-> "undefined"]

-----------------------------------------------------------------------------
(* One invocation's record of what happened, and a turn's additions to it *)

NoRun == [invoked |-> <<>>, fired |-> <<>>, pending |-> {},
          calls |-> <<>>, signals |-> <<>>, uncaught |-> "none"]

\* the additions of one turn: nothing invoked, nothing sent, nothing pending
Quiet == NoRun

Then(run, turn) ==
  [invoked  |-> run.invoked \o turn.invoked,
   fired    |-> run.fired \o turn.fired,
   pending  |-> run.pending \cup turn.pending,
   calls    |-> run.calls \o turn.calls,
   signals  |-> run.signals \o turn.signals,
   uncaught |-> turn.uncaught]

Run == [invoked |-> invoked, fired |-> fired, pending |-> pending,
        calls |-> calls, signals |-> signals, uncaught |-> uncaught]

\* the run once the callback of its outstanding call `op` is being delivered
Answered(run, op) == [run EXCEPT !.pending = @ \ {op}]

Commit(run) ==
  /\ invoked' = run.invoked
  /\ fired' = run.fired
  /\ pending' = run.pending
  /\ calls' = run.calls
  /\ signals' = run.signals
  /\ uncaught' = run.uncaught

\* a task's next(err, data)
Cb(step, err, data) == [step |-> step, err |-> err, data |-> data]
Call(op, params) == [op |-> op, params |-> params]
Signal(kind, payload) == [kind |-> kind, payload |-> payload]

-----------------------------------------------------------------------------
(* async.waterfall(tasks, callback)                                        *)
(* What the library runs when task `step` of `n` calls its `next` with     *)
(* `err`: the next task, or the final callback (with the error, or after   *)
(* the last task).  A task that throws is not caught by the library: the   *)
(* exception leaves the turn.                                              *)

\* faulty variant: the chain goes on to the next task after an error
waterfallMutContinue(n, step, err) ==
  IF step = n THEN "callback" ELSE "task"

waterfall(n, step, err) ==
  IF err # null THEN "callback"
  ELSE IF step = n THEN "callback"
  ELSE "task"

-----------------------------------------------------------------------------
(* JSON.stringify of an object whose values are strings: the properties in *)
(* insertion order, names and values quoted, '"' and '\' escaped.          *)

JSONescape(c) ==
  IF c = "\"" THEN <<"\\", "\"">>
  ELSE IF c = "\\" THEN <<"\\", "\\">>
  ELSE <<c>>

RECURSIVE JSONchars(_)
JSONchars(s) ==
  IF s = <<>> THEN <<>> ELSE JSONescape(Head(s)) \o JSONchars(Tail(s))

JSONquote(s) == <<"\"">> \o JSONchars(s) \o <<"\"">>

RECURSIVE JSONprops(_)
JSONprops(props) ==
  IF props = <<>> THEN <<>>
  ELSE JSONquote(<<props[1][1]>>) \o <<":">> \o JSONquote(props[1][2])
       \o (IF Len(props) > 1 THEN <<",">> ELSE <<>>)
       \o JSONprops(Tail(props))

JSONstringify(props) == <<"{">> \o JSONprops(props) \o <<"}">>

-----------------------------------------------------------------------------
(* executeWorkflow *)

\* number of tasks of executeWorkflow's chain
ewTasks == 4

\* the event of executeWorkflow: 'Records' present or not, and its value
RecordsEvents ==
  {[hasRecords |-> FALSE, Records |-> <<>>]} \cup
  [hasRecords : {TRUE}, Records : SeqsUpTo(S3Records, MaxRecords)]

\* task 2: the for loop over data.stateMachines from index i, and the throw
RECURSIVE ewScan(_, _, _)
ewScan(stateMachines, i, stateMachineName) ==
  IF i > Len(stateMachines)
    THEN [threw |-> TRUE, arn |-> "none"]
  ELSE IF stateMachines[i].name = stateMachineName
    THEN [threw |-> FALSE, arn |-> stateMachines[i].stateMachineArn]
  ELSE ewScan(stateMachines, i + 1, stateMachineName)

\* faulty variant: the loop does not return at the first match, the last wins
ewLookupMutLast(stateMachines, stateMachineName) ==
  LET hits == {i \in 1..Len(stateMachines) :
                 stateMachines[i].name = stateMachineName}
  IN IF hits = {} THEN [threw |-> TRUE, arn |-> "none"]
     ELSE [threw |-> FALSE,
           arn |-> stateMachines[CHOOSE i \in hits :
                     \A j \in hits : j <= i].stateMachineArn]

\* faulty variant: without a match the first listed workflow is taken
ewLookupMutFallback(stateMachines, stateMachineName) ==
  LET r == ewScan(stateMachines, 1, stateMachineName)
  IN IF r.threw /\ stateMachines # <<>>
       THEN [threw |-> FALSE, arn |-> stateMachines[1].stateMachineArn]
       ELSE r

ewLookup(stateMachines, stateMachineName) ==
  ewScan(stateMachines, 1, stateMachineName)

\* faulty variant: the last Record is read instead of the first
ewInputMutLast(ev) ==
  LET eventData == ev.Records[Len(ev.Records)]
  IN JSONstringify(<< <<"objectKey", eventData.key>>,
                      <<"bucketName", eventData.bucket>> >>)

\* task 3's input: JSON.stringify of { objectKey, bucketName } of Records[0]
ewInput(ev) ==
  LET eventData == ev.Records[1]
  IN JSONstringify(<< <<"objectKey", eventData.key>>,
                      <<"bucketName", eventData.bucket>> >>)

\* task 3: event.Records[0] of an empty list is undefined, and reading its
\* .s3 throws a TypeError; otherwise startExecution is sent
ewStartTask(ev, stateMachineArn) ==
  IF Len(ev.Records) = 0
    THEN [Quiet EXCEPT !.invoked = <<3>>, !.uncaught = "TypeError"]
    ELSE [Quiet EXCEPT !.invoked = <<3>>,
            !.calls = <<Call("startExecution",
                             [stateMachineArn |-> stateMachineArn,
                              input |-> ewInput(ev)])>>,
            !.pending = {"startExecution"}]

\* the waterfall is given no final callback: async substitutes a no-op
ewCallback(err) == Quiet

\* faulty variant: the chain is started without looking for 'Records'
executeWorkflowMutNoCheck(ev) ==
  [Quiet EXCEPT !.invoked = <<1>>,
     !.calls = <<Call("listStateMachines", <<>>)>>,
     !.pending = {"listStateMachines"}]

\* faulty variant: listing and starting are sent together, not chained
executeWorkflowMutParallel(ev) ==
  IF ev.hasRecords
    THEN IF Len(ev.Records) >= 1
      THEN [Quiet EXCEPT !.invoked = <<1, 3>>,
              !.calls = <<Call("listStateMachines", <<>>),
                          Call("startExecution",
                               [stateMachineArn |-> "A1", input |-> ewInput(ev)])>>,
              !.pending = {"listStateMachines", "startExecution"}]
      ELSE [Quiet EXCEPT !.invoked = <<1>>,
              !.calls = <<Call("listStateMachines", <<>>)>>,
              !.pending = {"listStateMachines"}]
    ELSE [Quiet EXCEPT !.signals =
            <<Signal("fail",
                Str("Incoming message doesn't contain \"Records\", it will be ignored"))>>]

\* the entry point
executeWorkflow(ev) ==
  IF ev.hasRecords
    THEN [Quiet EXCEPT !.invoked = <<1>>,
            !.calls = <<Call("listStateMachines", <<>>)>>,
            !.pending = {"listStateMachines"}]
    ELSE [Quiet EXCEPT !.signals =
            <<Signal("fail",
                Str("Incoming message doesn't contain \"Records\", it will be ignored"))>>]

\* the turn in which listStateMachines calls back: task 1's next(err, data),
\* then tasks 2 and 3 synchronously
ewOnListed(ev, stateMachineName, err, data) ==
  LET cb1 == [Quiet EXCEPT !.fired = <<Cb(1, err, data)>>]
  IN IF waterfall(ewTasks, 1, err) = "callback"
       THEN Then(cb1, ewCallback(err))
     ELSE LET found == ewLookup(data, stateMachineName)
          IN IF found.threw
               THEN Then(cb1, [Quiet EXCEPT !.invoked = <<2>>,
                      !.uncaught = "Step function with the given name doesn't exist"])
             ELSE LET cb2 == Then(cb1, [Quiet EXCEPT !.invoked = <<2>>,
                                          !.fired = <<Cb(2, null, found.arn)>>])
                  IN IF waterfall(ewTasks, 2, null) = "callback"
                       THEN Then(cb2, ewCallback(null))
                       ELSE Then(cb2, ewStartTask(ev, found.arn))

\* the turn in which startExecution calls back: task 3's next(err, data),
\* then task 4, which signals success and never calls next
ewOnStarted(err) ==
  LET cb3 == [Quiet EXCEPT !.fired = <<Cb(3, err, <<>>)>>]
  IN IF waterfall(ewTasks, 3, err) = "callback"
       THEN Then(cb3, ewCallback(err))
       ELSE Then(cb3, [Quiet EXCEPT !.invoked = <<4>>,
                         !.signals = <<Signal("succeed", Str("OK"))>>])

-----------------------------------------------------------------------------
(* processFile *)

\* number of tasks of processFile's chain
pfTasks == 2

\* the event of processFile, moveFile and sendEmail
FileEvents == [bucketName : Buckets, objectKey : Keys]

\* data[i] of a decoded row; a short row has no such field
pfField(data, i) == IF i + 1 <= Len(data) THEN data[i + 1] ELSE "undefined"

\* the parameters of the 'data' handler's putItem
pfItem(data) ==
  [Item |-> [sensor_id |-> [S |-> pfField(data, 0)],
             timestamp |-> [N |-> pfField(data, 1)],
             value     |-> [N |-> pfField(data, 2)]],
   TableName |-> "sensor_data"]

\* dynamodb.putItem(params) with no callback: the SDK builds an AWS.Request
\* and returns it; it sends a request only when given a callback or when
\* send() is called on it, and the handler drops the returned object
putItem(params) == [params |-> params, sent |-> FALSE]

\* faulty variant: a row whose write cannot be accepted fails the invocation
pfOnDataMutFail(data) ==
  [request |-> putItem(pfItem(data)),
   turn |-> IF Len(data) < 3
              THEN [Quiet EXCEPT !.signals = <<Signal("fail", Str("Execution failed"))>>]
              ELSE Quiet]

\* the 'data' handler of the CSV stream: one putItem request is built for
\* the row and dropped; nothing of the chain or of context is touched
pfOnData(data) == [request |-> putItem(pfItem(data)), turn |-> Quiet]

\* the final callback of processFile's waterfall
pfCallback(err, ev) ==
  IF err # null
    THEN [Quiet EXCEPT !.signals = <<Signal("fail", Str("Execution failed"))>>]
    ELSE [Quiet EXCEPT !.signals = <<Signal("succeed", Obj(ev))>>]

\* the entry point: task 1 sends waitFor('objectExists')
processFile(ev) ==
  [Quiet EXCEPT !.invoked = <<1>>,
     !.calls = <<Call("waitFor", [Bucket |-> ev.bucketName, Key |-> ev.objectKey])>>,
     !.pending = {"waitFor"}]

\* faulty variant: task 2 opens the stream and does not call next at once
pfIngestTaskMutAwait(ev) ==
  [Quiet EXCEPT !.invoked = <<2>>,
     !.calls = <<Call("getObject", [Bucket |-> ev.bucketName, Key |-> ev.objectKey])>>]

\* task 2: getObject(...).createReadStream() sends the request, the 'data'
\* handler is registered, and next(null) is called at once; it is the last
\* task, so the final callback runs in the same turn
pfIngestTask(ev) ==
  LET opened == [Quiet EXCEPT !.invoked = <<2>>,
                   !.calls = <<Call("getObject",
                       [Bucket |-> ev.bucketName, Key |-> ev.objectKey])>>,
                   !.fired = <<Cb(2, null, <<>>)>>]
  IN IF waterfall(pfTasks, 2, null) = "callback"
       THEN Then(opened, pfCallback(null, ev))
       ELSE opened

\* the turn in which waitFor calls back
pfOnWaited(ev, err) ==
  LET cb1 == [Quiet EXCEPT !.fired = <<Cb(1, err, <<>>)>>]
  IN IF waterfall(pfTasks, 1, err) = "callback"
       THEN Then(cb1, pfCallback(err, ev))
       ELSE Then(cb1, pfIngestTask(ev))

-----------------------------------------------------------------------------
(* moveFile *)

\* number of tasks of moveFile's chain
mvTasks == 3

\* encodeURIComponent on the characters of Keys: letters, digits and '.'
\* are kept, every other character becomes its %XX escape
encodeURIChar(c) ==
  CASE c = " "  -> <<"%", "2", "0">>
    [] c = "\"" -> <<"%", "2", "2">>
    [] c = "/"  -> <<"%", "2", "F">>
    [] c = "%"  -> <<"%", "2", "5">>
    [] OTHER    -> <<c>>

RECURSIVE encodeURIComponent(_)
encodeURIComponent(s) ==
  IF s = <<>> THEN <<>>
  ELSE encodeURIChar(Head(s)) \o encodeURIComponent(Tail(s))

\* 'processed/' + objectKey
newLocation(ev) == <<"processed/">> \o ev.objectKey

\* faulty variant: the final callback does not look at the error
mvCallbackMutIgnoreError(error, ev) ==
  [Quiet EXCEPT !.signals =
     <<Signal("succeed", Obj([bucketName |-> ev.bucketName,
                              objectKey |-> ev.objectKey,
                              newLocation |-> newLocation(ev)]))>>]

\* the final callback of moveFile's waterfall
mvCallback(error, ev) ==
  IF error # null
    THEN [Quiet EXCEPT !.signals = <<Signal("fail", undefined)>>]
    ELSE [Quiet EXCEPT !.signals =
            <<Signal("succeed", Obj([bucketName |-> ev.bucketName,
                                     objectKey |-> ev.objectKey,
                                     newLocation |-> newLocation(ev)]))>>]

\* the entry point: task 1 sends copyObject
moveFile(ev, targetBucket) ==
  [Quiet EXCEPT !.invoked = <<1>>,
     !.calls = <<Call("copyObject",
                  [Bucket |-> targetBucket, Key |-> newLocation(ev),
                   CopySource |-> ev.bucketName \o <<"/">>
                                    \o encodeURIComponent(ev.objectKey)])>>,
     !.pending = {"copyObject"}]

\* faulty variant: the existence-wait is left out, the delete follows the copy
mvOnCopiedMutSkipWait(ev, targetBucket, err) ==
  LET cb1 == [Quiet EXCEPT !.fired = <<Cb(1, err, <<>>)>>]
  IN IF waterfall(mvTasks, 1, err) = "callback"
       THEN Then(cb1, mvCallback(err, ev))
       ELSE Then(cb1, [Quiet EXCEPT !.invoked = <<2>>,
              !.calls = <<Call("deleteObject",
                  [Bucket |-> ev.bucketName, Key |-> ev.objectKey])>>,
              !.pending = {"deleteObject"}])

\* the turn in which copyObject calls back; task 2 sends waitFor
mvOnCopied(ev, targetBucket, err) ==
  LET cb1 == [Quiet EXCEPT !.fired = <<Cb(1, err, <<>>)>>]
  IN IF waterfall(mvTasks, 1, err) = "callback"
       THEN Then(cb1, mvCallback(err, ev))
       ELSE Then(cb1, [Quiet EXCEPT !.invoked = <<2>>,
              !.calls = <<Call("waitFor",
                  [Bucket |-> targetBucket, Key |-> newLocation(ev)])>>,
              !.pending = {"waitFor"}])

\* faulty variant: the outcome of the existence-wait is not looked at
mvOnWaitedMutDelete(ev, err) ==
  Then([Quiet EXCEPT !.fired = <<Cb(2, err, <<>>)>>],
       [Quiet EXCEPT !.invoked = <<3>>,
          !.calls = <<Call("deleteObject",
              [Bucket |-> ev.bucketName, Key |-> ev.objectKey])>>,
          !.pending = {"deleteObject"}])

\* the turn in which waitFor calls back; task 3 sends deleteObject
mvOnWaited(ev, err) ==
  LET cb2 == [Quiet EXCEPT !.fired = <<Cb(2, err, <<>>)>>]
  IN IF waterfall(mvTasks, 2, err) = "callback"
       THEN Then(cb2, mvCallback(err, ev))
       ELSE Then(cb2, [Quiet EXCEPT !.invoked = <<3>>,
              !.calls = <<Call("deleteObject",
                  [Bucket |-> ev.bucketName, Key |-> ev.objectKey])>>,
              !.pending = {"deleteObject"}])

\* faulty variant: a rejected delete is sent once more
mvOnDeletedMutRetry(ev, err) ==
  LET cb3 == [Quiet EXCEPT !.fired = <<Cb(3, err, <<>>)>>]
  IN IF err # null /\ Len(calls) < mvTasks + 1
       THEN [Quiet EXCEPT
               !.calls = <<Call("deleteObject",
                   [Bucket |-> ev.bucketName, Key |-> ev.objectKey])>>,
               !.pending = {"deleteObject"}]
       ELSE Then(cb3, mvCallback(err, ev))

\* the turn in which deleteObject calls back: the last task
mvOnDeleted(ev, err) ==
  LET cb3 == [Quiet EXCEPT !.fired = <<Cb(3, err, <<>>)>>]
  IN IF waterfall(mvTasks, 3, err) = "callback"
       THEN Then(cb3, mvCallback(err, ev))
       ELSE cb3

-----------------------------------------------------------------------------
(* sendEmail *)

\* number of tasks of sendEmail's chain
seTasks == 1

\* faulty variant: the branches of the final callback are exchanged
seCallbackMutSwap(err) ==
  IF err # null
    THEN [Quiet EXCEPT !.signals = <<Signal("succeed", Str("OK"))>>]
    ELSE [Quiet EXCEPT !.signals = <<Signal("fail", undefined)>>]

\* the final callback of sendEmail's waterfall
seCallback(err) ==
  IF err # null
    THEN [Quiet EXCEPT !.signals = <<Signal("fail", undefined)>>]
    ELSE [Quiet EXCEPT !.signals = <<Signal("succeed", Str("OK"))>>]

\* the entry point: the only task sends ses.sendEmail
sendEmail(ev, destEmail) ==
  [Quiet EXCEPT !.invoked = <<1>>,
     !.calls = <<Call("sendEmail",
                  [ToAddresses |-> <<destEmail>>,
                   Body |-> <<"Processed file ">> \o ev.objectKey,
                   Subject |-> "File processed",
                   Source |-> destEmail])>>,
     !.pending = {"sendEmail"}]

\* the turn in which ses.sendEmail calls back
seOnSent(err) ==
  LET cb1 == [Quiet EXCEPT !.fired = <<Cb(1, err, <<>>)>>]
  IN IF waterfall(seTasks, 1, err) = "callback"
       THEN Then(cb1, seCallback(err))
       ELSE cb1

-----------------------------------------------------------------------------
(* The invocation *)

Envs == [STEP_FUNCTION_NAME : Names,
         TARGET_BUCKET : {<<"d", "s", "t">>},
         DEST_EMAIL : {"a@b.com"}]

NoShadow == [event |-> [hasRecords |-> FALSE, Records |-> <<>>], run |-> NoRun]

\* err of a callback: null, or an error value
Outcomes == {null} \cup Errors

\* the turn opened the object's read stream
Opens(turn) == \E i \in 1..Len(turn.calls) : turn.calls[i].op = "getObject"

Init ==
  /\ env \in Envs
  /\ handler = "none"
  /\ event = <<>>
  /\ invoked = <<>>
  /\ fired = <<>>
  /\ pending = {}
  /\ calls = <<>>
  /\ signals = <<>>
  /\ uncaught = "none"
  /\ stream = "none"
  /\ rows = <<>>
  /\ decoded = 0
  /\ putRequests = <<>>
  /\ store = {}
  /\ shadow = NoShadow

\* the first request of operation `op` that was sent
CallOf(op) == calls[CHOOSE i \in 1..Len(calls) :
                      /\ calls[i].op = op
                      /\ \A j \in 1..(i - 1) : calls[j].op # op]

\* the SDK delivers the callback of the outstanding call `op` of `h`
Delivers(h, op) == handler = h /\ op \in pending /\ uncaught = "none"

InvokeExecuteWorkflow ==
  /\ handler = "none"
  /\ \E ev \in RecordsEvents :
       /\ handler' = "executeWorkflow"
       /\ event' = ev
       /\ Commit(Then(Run, executeWorkflow(ev)))
  /\ UNCHANGED <<env, stream, rows, decoded, putRequests, store, shadow>>

ListStateMachinesReturns ==
  /\ Delivers("executeWorkflow", "listStateMachines")
  /\ \E err \in Outcomes, data \in Listings :
       /\ err # null => data = <<>>
       /\ Commit(Then(Answered(Run, "listStateMachines"), ewOnListed(event, env.STEP_FUNCTION_NAME, err, data)))
  /\ UNCHANGED <<env, handler, event, stream, rows, decoded, putRequests,
                 store, shadow>>

StartExecutionReturns ==
  /\ Delivers("executeWorkflow", "startExecution")
  /\ \E err \in Outcomes : Commit(Then(Answered(Run, "startExecution"), ewOnStarted(err)))
  /\ UNCHANGED <<env, handler, event, stream, rows, decoded, putRequests,
                 store, shadow>>

InvokeProcessFile ==
  /\ handler = "none"
  /\ \E ev \in FileEvents :
       /\ handler' = "processFile"
       /\ event' = ev
       /\ store' = {<<ev.bucketName, ev.objectKey>>}
       /\ Commit(Then(Run, processFile(ev)))
  /\ UNCHANGED <<env, stream, rows, decoded, putRequests, shadow>>

\* waitFor calls back; when the chain goes on, the stream of the object's
\* rows is opened
PfWaitForReturns ==
  /\ Delivers("processFile", "waitFor")
  /\ \E err \in Outcomes, content \in SeqsUpTo(CsvRows, MaxRows) :
       LET turn == pfOnWaited(event, err)
       IN /\ Commit(Then(Answered(Run, "waitFor"), turn))
          /\ IF Opens(turn)
               THEN stream' = "open" /\ rows' = content
               ELSE content = <<>> /\ UNCHANGED <<stream, rows>>
  /\ UNCHANGED <<env, handler, event, decoded, putRequests, store, shadow>>

\* a 'data' event of the CSV stream: the handler builds one putItem request
PfData ==
  /\ handler = "processFile"
  /\ stream = "open"
  /\ rows # <<>>
  /\ decoded' = decoded + 1
  /\ rows' = Tail(rows)
  /\ putRequests' = Append(putRequests, pfOnData(Head(rows)).request)
  /\ Commit(Then(Run, pfOnData(Head(rows)).turn))
  /\ UNCHANGED <<env, handler, event, stream, store, shadow>>

\* the stream has been decoded to its end
PfEnd ==
  /\ handler = "processFile"
  /\ stream = "open"
  /\ rows = <<>>
  /\ stream' = "ended"
  /\ UNCHANGED <<env, handler, event, invoked, fired, pending, calls, signals,
                 uncaught, rows, decoded, putRequests, store, shadow>>

InvokeMoveFile ==
  /\ handler = "none"
  /\ \E ev \in FileEvents :
       /\ handler' = "moveFile"
       /\ event' = ev
       /\ store' \in {{<<ev.bucketName, ev.objectKey>>}, {}}
       /\ Commit(Then(Run, moveFile(ev, env.TARGET_BUCKET)))
  /\ UNCHANGED <<env, stream, rows, decoded, putRequests, shadow>>

\* a copy is accepted only if its source object exists, and an accepted
\* copy creates the destination object
CopyObjectReturns ==
  /\ Delivers("moveFile", "copyObject")
  /\ \E err \in Outcomes :
       /\ err = null => <<event.bucketName, event.objectKey>> \in store
       /\ Commit(Then(Answered(Run, "copyObject"), mvOnCopied(event, env.TARGET_BUCKET, err)))
       /\ store' = IF err = null
                     THEN store \cup {<<CallOf("copyObject").params.Bucket,
                                        CallOf("copyObject").params.Key>>}
                     ELSE store
  /\ UNCHANGED <<env, handler, event, stream, rows, decoded, putRequests, shadow>>

MvWaitForReturns ==
  /\ Delivers("moveFile", "waitFor")
  /\ \E err \in Outcomes : Commit(Then(Answered(Run, "waitFor"), mvOnWaited(event, err)))
  /\ UNCHANGED <<env, handler, event, stream, rows, decoded, putRequests,
                 store, shadow>>

\* an accepted delete removes the object it names
DeleteObjectReturns ==
  /\ Delivers("moveFile", "deleteObject")
  /\ \E err \in Outcomes :
       /\ Commit(Then(Answered(Run, "deleteObject"), mvOnDeleted(event, err)))
       /\ store' = IF err = null
                     THEN store \ {<<CallOf("deleteObject").params.Bucket,
                                     CallOf("deleteObject").params.Key>>}
                     ELSE store
  /\ UNCHANGED <<env, handler, event, stream, rows, decoded, putRequests, shadow>>

InvokeSendEmail ==
  /\ handler = "none"
  /\ \E ev \in FileEvents :
       /\ handler' = "sendEmail"
       /\ event' = ev
       /\ Commit(Then(Run, sendEmail(ev, env.DEST_EMAIL)))
  /\ UNCHANGED <<env, stream, rows, decoded, putRequests, store, shadow>>

SendEmailReturns ==
  /\ Delivers("sendEmail", "sendEmail")
  /\ \E err \in Outcomes : Commit(Then(Answered(Run, "sendEmail"), seOnSent(err)))
  /\ UNCHANGED <<env, handler, event, stream, rows, decoded, putRequests,
                 store, shadow>>

Next ==
  \/ InvokeExecuteWorkflow
  \/ ListStateMachinesReturns
  \/ StartExecutionReturns
  \/ InvokeProcessFile
  \/ PfWaitForReturns
  \/ PfData
  \/ PfEnd
  \/ InvokeMoveFile
  \/ CopyObjectReturns
  \/ MvWaitForReturns
  \/ DeleteObjectReturns
  \/ InvokeSendEmail
  \/ SendEmailReturns

Spec == Init /\ [][Next]_vars

-----------------------------------------------------------------------------
(* Two executeWorkflow invocations side by side: the same configuration,   *)
(* the same answers of the workflow engine, and events that agree on       *)
(* Records[0] and may differ in every later Record.                        *)

PairInvoke ==
  /\ handler = "none"
  /\ \E ev \in RecordsEvents, ev2 \in RecordsEvents :
       /\ Len(ev.Records) >= 1
       /\ Len(ev2.Records) >= 1
       /\ ev2.Records[1] = ev.Records[1]
       /\ handler' = "executeWorkflow"
       /\ event' = ev
       /\ Commit(Then(Run, executeWorkflow(ev)))
       /\ shadow' = [event |-> ev2, run |-> Then(NoRun, executeWorkflow(ev2))]
  /\ UNCHANGED <<env, stream, rows, decoded, putRequests, store>>

PairListStateMachinesReturns ==
  /\ Delivers("executeWorkflow", "listStateMachines")
  /\ \E err \in Outcomes, data \in Listings :
       /\ err # null => data = <<>>
       /\ Commit(Then(Answered(Run, "listStateMachines"), ewOnListed(event, env.STEP_FUNCTION_NAME, err, data)))
       /\ shadow' = [shadow EXCEPT !.run =
            IF "listStateMachines" \in @.pending /\ @.uncaught = "none"
              THEN Then(Answered(@, "listStateMachines"), ewOnListed(shadow.event, env.STEP_FUNCTION_NAME, err, data))
              ELSE @]
  /\ UNCHANGED <<env, handler, event, stream, rows, decoded, putRequests, store>>

PairStartExecutionReturns ==
  /\ Delivers("executeWorkflow", "startExecution")
  /\ \E err \in Outcomes :
       /\ Commit(Then(Answered(Run, "startExecution"), ewOnStarted(err)))
       /\ shadow' = [shadow EXCEPT !.run =
            IF "startExecution" \in @.pending /\ @.uncaught = "none"
              THEN Then(Answered(@, "startExecution"), ewOnStarted(err))
              ELSE @]
  /\ UNCHANGED <<env, handler, event, stream, rows, decoded, putRequests, store>>

NextPair ==
  \/ PairInvoke
  \/ PairListStateMachinesReturns
  \/ PairStartExecutionReturns

SpecPair == Init /\ [][NextPair]_vars

-----------------------------------------------------------------------------
(* Properties *)

Fired(step, ok) ==
  \E j \in 1..Len(fired) :
    fired[j].step = step /\ ((fired[j].err = null) <=> ok)

Sent(op) == \E i \in 1..Len(calls) : calls[i].op = op

Signalled(kind) == \E i \in 1..Len(signals) : signals[i].kind = kind

\* nothing of the invocation is outstanding any more
Quiescent == handler # "none" /\ pending = {}

\* C1: in every chain, the tasks are invoked in order, task i+1 only once
\* task i's callback has fired without an error, and never when task i's
\* callback fired with an error
C1_NextStepOnlyAfterSuccess ==
  \A k \in 1..Len(invoked) :
    /\ invoked[k] = k
    /\ invoked[k] > 1 =>
         /\ Fired(invoked[k] - 1, TRUE)
         /\ ~Fired(invoked[k] - 1, FALSE)

\* moveFile's second task was invoked after the first succeeded, it failed,
\* and the third task was not invoked
C1_Witness ==
  /\ handler = "moveFile"
  /\ invoked = <<1, 2>>
  /\ Fired(1, TRUE)
  /\ Fired(2, FALSE)
  /\ Quiescent

\* C2: an invocation fires exactly one terminal signal: never more than
\* one, and one once nothing of the invocation is outstanding
C2_ExactlyOneSignal ==
  /\ Len(signals) <= 1
  /\ (Quiescent \/ uncaught # "none") => Len(signals) = 1

\* C3: whenever a task's callback fired with an error, context.fail has
\* fired with that error
C3_FailWithStepError ==
  \A j \in 1..Len(fired) :
    fired[j].err # null =>
      \E i \in 1..Len(signals) :
        /\ signals[i].kind = "fail"
        /\ signals[i].payload.type # "undefined"
        /\ signals[i].payload.val = fired[j].err

\* C4: when the listing has been delivered and holds no workflow of the
\* configured name (the lookup task throws), context.fail has fired
C4_ThrowRoutedToFail ==
  ( /\ handler = "executeWorkflow"
    /\ Fired(1, TRUE)
    /\ \A i \in 1..Len(fired[1].data) :
         fired[1].data[i].name # env.STEP_FUNCTION_NAME )
  => Signalled("fail")

\* C5: in executeWorkflow, when the listing holds no entry of the
\* configured name, startExecution is not sent and context.succeed does
\* not fire
C5_NoMatchNoStart ==
  ( /\ handler = "executeWorkflow"
    /\ Fired(1, TRUE)
    /\ \A i \in 1..Len(fired[1].data) :
         fired[1].data[i].name # env.STEP_FUNCTION_NAME )
  => /\ ~Sent("startExecution")
     /\ ~Signalled("succeed")
     /\ ~(3 \in {invoked[k] : k \in 1..Len(invoked)})

\* a non-empty listing without the configured name has been delivered
C5_Witness ==
  /\ handler = "executeWorkflow"
  /\ Fired(1, TRUE)
  /\ Len(fired[1].data) = 2
  /\ Len(event.Records) >= 1
  /\ \A i \in 1..Len(fired[1].data) :
       fired[1].data[i].name # env.STEP_FUNCTION_NAME

\* C6: the ARN given to startExecution is the stateMachineArn of the first
\* entry of the listing whose name equals the configured name
C6_FirstMatchArn ==
  \A c \in 1..Len(calls) :
    calls[c].op = "startExecution" =>
      \E i \in 1..Len(fired[1].data) :
        /\ fired[1].data[i].name = env.STEP_FUNCTION_NAME
        /\ \A j \in 1..(i - 1) : fired[1].data[j].name # env.STEP_FUNCTION_NAME
        /\ calls[c].params.stateMachineArn = fired[1].data[i].stateMachineArn

\* startExecution was sent for a listing that holds the configured name
\* twice, under different ARNs
C6_Witness ==
  /\ Sent("startExecution")
  /\ Len(fired[1].data) = 2
  /\ fired[1].data[1].name = env.STEP_FUNCTION_NAME
  /\ fired[1].data[2].name = env.STEP_FUNCTION_NAME
  /\ fired[1].data[1].stateMachineArn # fired[1].data[2].stateMachineArn

\* C7: startExecution is sent only after listStateMachines has called back
\* without an error and the lookup has handed on the ARN it is sent with;
\* the two calls are never outstanding together
C7_ResolveBeforeStart ==
  /\ \A c \in 1..Len(calls) :
       calls[c].op = "startExecution" =>
         /\ c = 2
         /\ calls[1].op = "listStateMachines"
         /\ Len(fired) >= 2
         /\ fired[1] = Cb(1, null, fired[1].data)
         /\ fired[2] = Cb(2, null, calls[c].params.stateMachineArn)
  /\ ~({"listStateMachines", "startExecution"} \subseteq pending)

\* startExecution is outstanding
C7_Witness ==
  /\ handler = "executeWorkflow"
  /\ pending = {"startExecution"}

\* the text JSON.stringify gives a string of Keys or Buckets, written out
C8_Quoted(v) ==
  CASE v = <<"k", ".", "c", "s", "v">> -> <<"\"", "k", ".", "c", "s", "v", "\"">>
    [] v = <<"a", " ", "\"", "/">>     -> <<"\"", "a", " ", "\\", "\"", "/", "\"">>
    [] v = <<"b">>                     -> <<"\"", "b", "\"">>
    [] v = <<"s", "r", "c">>           -> <<"\"", "s", "r", "c", "\"">>

\* {"objectKey":<key>,"bucketName":<bucket>} of one Record
C8_Input(record) ==
  <<"{", "\"", "objectKey", "\"", ":">> \o C8_Quoted(record.key)
  \o <<",", "\"", "bucketName", "\"", ":">> \o C8_Quoted(record.bucket)
  \o <<"}">>

\* C8: the input of startExecution is the JSON text of {objectKey,
\* bucketName} of Records[0], and an invocation whose event differs only in
\* Records after the first sends the same calls, fires the same callbacks
\* and signals, and ends the same way
C8_FirstRecordOnly ==
  /\ \A c \in 1..Len(calls) :
       calls[c].op = "startExecution" =>
         calls[c].params.input = C8_Input(event.Records[1])
  /\ handler = "executeWorkflow" =>
       /\ shadow.run.calls = calls
       /\ shadow.run.signals = signals
       /\ shadow.run.invoked = invoked
       /\ shadow.run.uncaught = uncaught

\* startExecution was sent for two events of different length whose later
\* Records differ from the first one
C8_Witness ==
  /\ Sent("startExecution")
  /\ Len(event.Records) = 2
  /\ event.Records[2] # event.Records[1]
  /\ Len(shadow.event.Records) = 1
  /\ event.Records[1].key = <<"a", " ", "\"", "/">>

\* C9: in processFile, once the stream of rows has been opened
\* context.succeed(event) has fired, however few rows have been decoded:
\* the ingestion task completes in the turn that opens the stream
C9_SucceedOnStreamOpen ==
  (handler = "processFile" /\ stream # "none") =>
    /\ signals = <<Signal("succeed", Obj(event))>>
    /\ Fired(2, TRUE)

\* context.succeed has fired, the stream holds rows, none has been decoded
\* and no putItem request has been built
C9_Witness ==
  /\ handler = "processFile"
  /\ Signalled("succeed")
  /\ stream = "open"
  /\ Len(rows) >= 2
  /\ decoded = 0
  /\ putRequests = <<>>

\* C10: when the stream has been decoded to its end, one putItem write per
\* decoded row has been issued to table 'sensor_data', with the row's
\* fields 0, 1, 2 as sensor_id (S), timestamp (N) and value (N)
C10_OneWritePerRow ==
  (handler = "processFile" /\ stream = "ended") =>
    /\ Len(putRequests) = decoded
    /\ \A i \in 1..Len(putRequests) :
         /\ putRequests[i].sent
         /\ putRequests[i].params.TableName = "sensor_data"
         /\ DOMAIN putRequests[i].params.Item = {"sensor_id", "timestamp", "value"}

\* C11: moveFile sends copyObject to TARGET_BUCKET under 'processed/' +
\* objectKey, then waitFor on that destination, then deleteObject on the
\* source, in this order; deleteObject is sent only once the copy and the
\* existence-wait have called back without an error
C11_CopyWaitDelete ==
  handler = "moveFile" =>
    LET dest == [Bucket |-> env.TARGET_BUCKET,
                 Key |-> <<"processed/">> \o event.objectKey]
        order == <<"copyObject", "waitFor", "deleteObject">>
    IN /\ Len(calls) \in 1..3
       /\ \A i \in 1..Len(calls) : calls[i].op = order[i]
       /\ calls[1].params.Bucket = dest.Bucket
       /\ calls[1].params.Key = dest.Key
       /\ Len(calls) >= 2 => calls[2].params = dest
       /\ Len(calls) >= 3 =>
            /\ calls[3].params = [Bucket |-> event.bucketName,
                                  Key |-> event.objectKey]
            /\ Fired(1, TRUE)
            /\ Fired(2, TRUE)

\* all three calls of moveFile have been sent
C11_Witness ==
  /\ handler = "moveFile"
  /\ Len(calls) = 3
  /\ "deleteObject" \in pending
  /\ event.objectKey = <<"a", " ", "\"", "/">>

\* C12: in moveFile, when the existence-wait or the delete has failed,
\* context.fail has fired, the source object and the copied destination
\* object both exist, and no call follows the failed one
C12_PartialCompletion ==
  (handler = "moveFile" /\ (Fired(2, FALSE) \/ Fired(3, FALSE))) =>
    /\ signals = <<Signal("fail", undefined)>>
    /\ <<event.bucketName, event.objectKey>> \in store
    /\ <<env.TARGET_BUCKET, <<"processed/">> \o event.objectKey>> \in store
    /\ pending = {}
    /\ Len(calls) = fired[Len(fired)].step
    /\ Fired(2, FALSE) => ~Sent("deleteObject")

\* the existence-wait of moveFile has failed
C12_Witness ==
  /\ handler = "moveFile"
  /\ Fired(1, TRUE)
  /\ Fired(2, FALSE)
  /\ Signalled("fail")
  /\ Cardinality(store) = 2

\* C13: a sendEmail invocation sends exactly one message, with subject
\* 'File processed', body 'Processed file ' + objectKey and DEST_EMAIL as
\* recipient and as source; context.succeed fires only when the send was
\* accepted, context.fail only when it was rejected
C13_OneMessage ==
  handler = "sendEmail" =>
    /\ calls = <<Call("sendEmail",
                  [ToAddresses |-> <<env.DEST_EMAIL>>,
                   Body |-> <<"Processed file ">> \o event.objectKey,
                   Subject |-> "File processed",
                   Source |-> env.DEST_EMAIL])>>
    /\ Signalled("succeed") => Fired(1, TRUE)
    /\ Signalled("fail") => Fired(1, FALSE)
    /\ Len(fired) = 1 => Len(signals) = 1

\* the message was accepted and context.succeed has fired
C13_Witness ==
  /\ handler = "sendEmail"
  /\ Fired(1, TRUE)
  /\ signals = <<Signal("succeed", Str("OK"))>>

\* every task of the invoked chain that sends a call has called back
\* without an error
C14_AllAccepted ==
  LET n == CASE handler = "executeWorkflow" -> 3
             [] handler = "processFile" -> 2
             [] handler = "moveFile" -> 3
             [] handler = "sendEmail" -> 1
             [] OTHER -> 0
  IN /\ \A k \in 1..n : Fired(k, TRUE)
     /\ \A j \in 1..Len(fired) : fired[j].err = null

\* C14: context.succeed fires only after every task of the chain has
\* completed without an error; moveFile's result is {bucketName, objectKey,
\* newLocation} of the event, executeWorkflow's is 'OK'
C14_SucceedOnlyAfterAll ==
  Signalled("succeed") =>
    /\ C14_AllAccepted
    /\ uncaught = "none"
    /\ handler = "moveFile" =>
         signals = <<Signal("succeed",
                      Obj([bucketName |-> event.bucketName,
                           objectKey |-> event.objectKey,
                           newLocation |-> <<"processed/">> \o event.objectKey]))>>
    /\ handler = "executeWorkflow" => signals = <<Signal("succeed", Str("OK"))>>

\* moveFile has signalled success
C14_Witness ==
  /\ handler = "moveFile"
  /\ Signalled("succeed")
  /\ Fired(3, TRUE)

\* the calls a chain has sent when its task `step` has called back:
\* one per task, but none by executeWorkflow's lookup task
C15_CallsThrough(step) ==
  IF handler = "executeWorkflow" /\ step >= 2 THEN step - 1 ELSE step

\* C15: within an invocation no call is sent twice, and once a task's
\* callback has fired with an error no call is outstanding and none is
\* sent after it
C15_NoRetry ==
  /\ \A i, j \in 1..Len(calls) : calls[i].op = calls[j].op => i = j
  /\ \A j \in 1..Len(fired) :
       fired[j].err # null =>
         /\ j = Len(fired)
         /\ pending = {}
         /\ invoked[Len(invoked)] = fired[j].step
         /\ Len(calls) = C15_CallsThrough(fired[j].step)

\* moveFile's delete was rejected
C15_Witness ==
  /\ handler = "moveFile"
  /\ Fired(3, FALSE)
  /\ Len(calls) = 3

\* C16: in processFile a turn that builds the write of a row changes no
\* terminal signal and raises nothing: context.succeed(event) has fired
\* before it and stays the only signal, whatever the row and whatever
\* becomes of its write
C16_WritesNeverSignal ==
  [][(handler = "processFile" /\ putRequests' # putRequests) =>
       /\ signals = <<Signal("succeed", Obj(event))>>
       /\ signals' = signals
       /\ uncaught' = "none"]_vars

\* the stream was decoded to its end, the write of a short row (no
\* timestamp, no value) and every other write never reached the table, and
\* context.succeed is the only signal
C16_Witness ==
  /\ handler = "processFile"
  /\ stream = "ended"
  /\ decoded = 2
  /\ \E i \in 1..Len(putRequests) :
       putRequests[i].params.Item.value.N = "undefined"
  /\ \A i \in 1..Len(putRequests) : ~putRequests[i].sent
  /\ signals = <<Signal("succeed", Obj(event))>>

\* C17: the write of every decoded row is in flight from the turn that
\* decoded the row, without waiting for an earlier write, so that all the
\* writes of the decoded rows are in flight together
C17_AllWritesInFlight ==
  handler = "processFile" =>
    Cardinality({i \in 1..Len(putRequests) : putRequests[i].sent}) = decoded

\* C18: in processFile the read stream is opened and putItem requests are
\* built only after the existence-wait has succeeded; when the wait has
\* failed no stream is opened, no putItem request is built and
\* context.fail('Execution failed') has fired
C18_IngestOnlyAfterWait ==
  handler = "processFile" =>
    /\ (stream # "none" \/ Sent("getObject") \/ putRequests # <<>> \/ decoded > 0)
         => Fired(1, TRUE)
    /\ Fired(1, FALSE) =>
         /\ stream = "none"
         /\ ~Sent("getObject")
         /\ putRequests = <<>>
         /\ decoded = 0
         /\ signals = <<Signal("fail", Str("Execution failed"))>>

\* the existence-wait of processFile has failed
C18_Witness ==
  /\ handler = "processFile"
  /\ Fired(1, FALSE)
  /\ Quiescent

\* C19: an executeWorkflow invocation whose event has no 'Records' fires
\* context.fail in the entry point's own turn and sends nothing to the
\* workflow engine
C19_NoRecordsFails ==
  (handler = "executeWorkflow" /\ ~event.hasRecords) =>
    /\ signals = <<Signal("fail",
         Str("Incoming message doesn't contain \"Records\", it will be ignored"))>>
    /\ calls = <<>>
    /\ pending = {}
    /\ invoked = <<>>

\* executeWorkflow was invoked with an event without 'Records'
C19_Witness ==
  /\ handler = "executeWorkflow"
  /\ ~event.hasRecords
  /\ Signalled("fail")

====
